---- MODULE Spec2Model ----
(***************************************************************************)
(* freenas_manager: the Host registry (freenas_manager/__init__.py) and    *)
(* the asyncio discovery pipeline built on it (freenas_manager/__main__.py)*)
(*                                                                         *)
(* Python strings that the code takes apart (hardware addresses) are       *)
(* sequences of one-character strings; None is the value None (for a       *)
(* hardware address, NoMac). An attribute an object does not have yet      *)
(* (hasattr is false) holds Unset.                                         *)
(***************************************************************************)
EXTENDS Integers, Sequences, FiniteSets, TLC

\* ------------------------------------------------------------------ bounds
\* Loop time at which the exploration stops.
MaxTime == 140
\* Host objects ever allocated by Host.__new__.
MaxHosts == 4
\* nmap sweeps that may report addresses before any Host has been evicted
\* (later sweeps report none, until a Host has been evicted: a host that went
\* silent may come back).
MaxSweeps == 1
\* SIGINT/SIGTERM deliveries.
MaxSignals == 1
\* Host API calls in the specification of the Host class alone.
MaxCalls == 4
\* Characters in a hardware address given to format_mac on its own.
MaxLen == 4
\* How long an nmap sweep, an arp probe and a router call that answer take.
NmapTime == 1
ArpTime == 2
RouterTime == 1

\* ------------------------------------------------------- program constants
StaleAfter == 120
HeartBeatSleep == 15
SubprocessTimeout == 60
LineSleep == 1
SweepSleep == 30
ResolverSleep == 30
MonitorSleep == 5

\* asyncio.Queue(): maxsize 0, a queue that is never full.
ip_queue_maxsize == 0
mac_queue_maxsize == 0

\* ------------------------------------------------------------------ values
None == "None"
Unset == "<unset>"
NoMac == <<"<None>">>
NoTime == 0 - 1

\* ------------------------------------------------------ Host.format_mac
HexDigits == <<"0", "1", "2", "3", "4", "5", "6", "7",
               "8", "9", "a", "b", "c", "d", "e", "f">>

\* The value of one character as a base-16 digit, -1 for any other character.
HexVal(c) ==
    CASE c = "0" -> 0 [] c = "1" -> 1 [] c = "2" -> 2 [] c = "3" -> 3
      [] c = "4" -> 4 [] c = "5" -> 5 [] c = "6" -> 6 [] c = "7" -> 7
      [] c = "8" -> 8 [] c = "9" -> 9
      [] c \in {"a", "A"} -> 10 [] c \in {"b", "B"} -> 11
      [] c \in {"c", "C"} -> 12 [] c \in {"d", "D"} -> 13
      [] c \in {"e", "E"} -> 14 [] c \in {"f", "F"} -> 15
      [] OTHER -> -1

\* str.split(":"): the tokens between the colons, empty tokens kept.
RECURSIVE split(_)
split(s) ==
    IF \A i \in 1..Len(s) : s[i] # ":" THEN <<s>>
    ELSE LET k == CHOOSE i \in 1..Len(s) :
                      s[i] = ":" /\ \A j \in 1..(i - 1) : s[j] # ":"
         IN  <<SubSeq(s, 1, k - 1)>> \o split(SubSeq(s, k + 1, Len(s)))

\* The digits of a token read in base 16, most significant first.
RECURSIVE digits_value(_)
digits_value(ds) ==
    IF ds = <<>> THEN 0
    ELSE 16 * digits_value(SubSeq(ds, 1, Len(ds) - 1)) + HexVal(ds[Len(ds)])

\* int(token, 16): an optional sign, then one or more base-16 digits; anything
\* else is a ValueError.
int16(token) ==
    LET signed == token # <<>> /\ token[1] \in {"+", "-"}
        ds     == IF signed THEN Tail(token) ELSE token
    IN  IF ds = <<>> \/ \E i \in 1..Len(ds) : HexVal(ds[i]) < 0
        THEN [ok |-> FALSE, val |-> 0]
        ELSE [ok |-> TRUE,
              val |-> IF signed /\ token[1] = "-" THEN 0 - digits_value(ds)
                      ELSE digits_value(ds)]

RECURSIVE hex_digits(_)
hex_digits(n) ==
    IF n < 16 THEN <<HexDigits[n + 1]>>
    ELSE hex_digits(n \div 16) \o <<HexDigits[(n % 16) + 1]>>

\* f"{n:02x}": lower-case base 16, the sign first, zero-padded to width 2.
format_02x(n) ==
    LET body == hex_digits(IF n < 0 THEN 0 - n ELSE n)
    IN  IF n < 0 THEN <<"-">> \o body
        ELSE IF Len(body) < 2 THEN <<"0">> \o body ELSE body

RECURSIVE join(_)
join(tokens) ==
    IF Len(tokens) = 1 THEN tokens[1]
    ELSE tokens[1] \o <<":">> \o join(Tail(tokens))

\* Mutant: the tokens are joined as they came, not re-rendered.
format_mac_verbatim(mac) ==
    LET tokens == split(mac)
    IN  IF \E i \in 1..Len(tokens) : ~int16(tokens[i]).ok THEN NoMac ELSE mac

format_mac(mac) ==
    LET tokens == split(mac)
    IN  IF \E i \in 1..Len(tokens) : ~int16(tokens[i]).ok THEN NoMac
        ELSE join([i \in 1..Len(tokens) |-> format_02x(int16(tokens[i]).val)])

\* ------------------------------------------------------------------- state
VARIABLES
    now,            \* loop.time(), in the time unit of asyncio.sleep
    instances,      \* Host.__instances__: identity -> index of its Host in objs
    objs,           \* every Host object allocated so far, in allocation order
    evicted,        \* identity -> when Host.destroy last removed it (its log)
    tasks,          \* asyncio.Task.all_tasks(), in creation order
    ready,          \* the callbacks of the loop iteration that is running
    sched,          \* callbacks registered by call_soon for the next iteration
    stopping,       \* loop._stopping
    outer,          \* the future returned by asyncio.gather in main
    mainState,      \* where main() is
    signals,        \* signals delivered so far
    sweeps,         \* nmap sweeps started so far
    ip_queue,       \* main's ip_queue
    mac_queue,      \* main's mac_queue
    nmap,           \* what the running nmap subprocess will have printed
    lines,          \* ip_monitor: the addresses of stdout not yet put
    arp,            \* what the running arp subprocess will return
    router,         \* what the running get_router_data call will return
    results,        \* name_resolver: the records of its last cycle
    previous_macs,  \* task_monitor: previous_macs
    reported,       \* task_monitor: what its last cycle logged
    calls,          \* Host API calls made so far (Host class specification)
    last_call,      \* the last Host API call and what it returned
    refs            \* what Host(mac) last returned, for each mac it was given

hostVars == <<instances, objs, evicted>>
loopVars == <<tasks, ready, sched, stopping, outer, mainState, signals>>
pipeVars == <<sweeps, ip_queue, mac_queue, nmap, lines, arp, router, results,
              previous_macs, reported>>
apiVars  == <<calls, last_call, refs>>
vars     == <<now, hostVars, loopVars, pipeVars, apiVars>>

\* --------------------------------------------------------------- the tasks
\* The five coroutines main() gathers, in the order of the gather call.
IpMonitor    == 1
MacResolver  == 2
Assembler    == 3
NameResolver == 4
TaskMonitor  == 5
Gathered     == {IpMonitor, MacResolver, Assembler, NameResolver, TaskMonitor}

\* A task: its coroutine (kind; host is the Host of a heart_beat), the await
\* it is suspended at (pc), whether the future it awaits is still pending
\* (waiting), Task._must_cancel, the times at which its sleep or timeout
\* timer (wake) and its subprocess or executor call (io) come due, and the
\* exception it ended with (exc).
NewTask(kind, host) ==
    [kind |-> kind, host |-> host, status |-> "pending", pc |-> "start",
     waiting |-> FALSE, must_cancel |-> FALSE, wake |-> NoTime, io |-> NoTime,
     exc |-> None]

StepOf(t)     == <<"step", t>>
TimerOf(t)    == <<"timer", t>>
IoOf(t)       == <<"io", t>>
GatherCbOf(t) == <<"gather_cb", t>>
SignalHandle  == <<"signal", 0>>
RunCbHandle   == <<"run_until_complete_cb", 0>>

\* ---------------------------------------------------------------- Host
\* The part of the state Host's methods read and write, handed from one call
\* to the next: the registry, the objects, the tasks and call_soon's queue.
\* ret is what the call returned and raised the exception it ended with.
Heap == [instances |-> instances, objs |-> objs, evicted |-> evicted,
         tasks |-> tasks, sched |-> sched, ret |-> 0, raised |-> None]

UnsetMac == <<"<unset>">>
BlankHost == [mac |-> UnsetMac, ip |-> Unset, name |-> Unset, type |-> Unset,
              updated |-> FALSE, loop_up |-> NoTime, last_refresh |-> NoTime,
              task |-> 0]

get_instances == instances

\* Mutant: the registry is keyed by the address as given.
Host_new_raw_key(h, mac) ==
    IF format_mac(mac) = NoMac THEN [h EXCEPT !.raised = "AssertionError"]
    ELSE IF mac \notin DOMAIN h.instances
    THEN [h EXCEPT !.objs = Append(h.objs, BlankHost),
                   !.instances = h.instances @@ (mac :> Len(h.objs) + 1),
                   !.ret = Len(h.objs) + 1]
    ELSE [h EXCEPT !.ret = h.instances[mac]]

\* Host.__new__(cls, mac): the Host registered under format_mac(mac), allocated
\* and registered first when there is none.
Host_new(h, mac) ==
    LET m == format_mac(mac)
    IN  IF mac = NoMac THEN [h EXCEPT !.raised = "AttributeError"]
        ELSE IF m = NoMac THEN [h EXCEPT !.raised = "AssertionError"]
        ELSE IF m \notin DOMAIN h.instances
        THEN [h EXCEPT !.objs = Append(h.objs, BlankHost),
                       !.instances = h.instances @@ (m :> Len(h.objs) + 1),
                       !.ret = Len(h.objs) + 1]
        ELSE [h EXCEPT !.ret = h.instances[m]]

\* Mutant: the value given always replaces the field.
update_always(o, field, value) == [o EXCEPT ![field] = value]

\* Host.update_if_better(field, value) on the object o.
update_if_better(o, field, value) ==
    IF o[field] = Unset \/ value # None THEN [o EXCEPT ![field] = value] ELSE o

\* Mutant: a value that differs is stored even when it is None.
set_and_flag_any(o, field, value) ==
    IF o[field] # value
    THEN [o EXCEPT ![field] = value, !.updated = TRUE] ELSE o

\* Host.set_and_flag(field, value) on the object o: the setters of ip, name, type.
set_and_flag(o, field, value) ==
    IF o[field] # value /\ value # None
    THEN [o EXCEPT ![field] = value, !.updated = TRUE]
    ELSE o

\* Mutant: every construction starts a heart_beat task.
Host_init_always_starts(h, self, t, mac, ip, name, type) ==
    LET m  == format_mac(mac)
        o0 == h.objs[self]
    IN  IF o0.mac # UnsetMac /\ o0.mac # m
        THEN [h EXCEPT !.raised = "AssertionError"]
        ELSE
        LET o1 == update_if_better([o0 EXCEPT !.mac = m], "ip", ip)
            o2 == update_if_better(o1, "name", name)
            o3 == update_if_better(o2, "type", type)
            o4 == [o3 EXCEPT !.updated = FALSE]
            o5 == IF o4.loop_up = NoTime THEN [o4 EXCEPT !.loop_up = t] ELSE o4
            o6 == [o5 EXCEPT !.task = Len(h.tasks) + 1]
            o7 == [o6 EXCEPT !.last_refresh = t]
        IN  [h EXCEPT !.objs[self] = o7,
                      !.tasks = Append(h.tasks, NewTask("heart_beat", self)),
                      !.sched = Append(h.sched, StepOf(Len(h.tasks) + 1))]

\* Host.__init__(self, mac, ip, name, type) at loop time t, on the object that
\* Host.__new__ returned.
Host_init(h, self, t, mac, ip, name, type) ==
    LET m  == format_mac(mac)
        o0 == h.objs[self]
    IN  IF o0.mac # UnsetMac /\ o0.mac # m
        THEN [h EXCEPT !.raised = "AssertionError"]
        ELSE
        LET o1 == update_if_better([o0 EXCEPT !.mac = m], "ip", ip)
            o2 == update_if_better(o1, "name", name)
            o3 == update_if_better(o2, "type", type)
            o4 == [o3 EXCEPT !.updated = FALSE]
            o5 == IF o4.loop_up = NoTime THEN [o4 EXCEPT !.loop_up = t] ELSE o4
            starts == o5.task = 0
            o6 == IF starts THEN [o5 EXCEPT !.task = Len(h.tasks) + 1] ELSE o5
            o7 == [o6 EXCEPT !.last_refresh = t]
        IN  [h EXCEPT !.objs[self] = o7,
                      !.tasks = IF starts
                                THEN Append(h.tasks, NewTask("heart_beat", self))
                                ELSE h.tasks,
                      !.sched = IF starts
                                THEN Append(h.sched, StepOf(Len(h.tasks) + 1))
                                ELSE h.sched]

\* Host(mac, ip=..., name=..., type=...): __new__, then __init__ on its result.
Host(h, t, mac, ip, name, type) ==
    LET h1 == Host_new(h, mac)
    IN  IF h1.raised # None THEN h1
        ELSE Host_init(h1, h1.ret, t, mac, ip, name, type)

\* Mutant: removing an identity that is not registered is not an error.
destroy_quiet(h, self, at) ==
    LET m == h.objs[self].mac
    IN  IF m \notin DOMAIN h.instances THEN h
        ELSE [h EXCEPT
                !.instances = [k \in DOMAIN h.instances \ {m} |-> h.instances[k]],
                !.evicted = [k \in DOMAIN h.evicted \cup {m} |->
                                IF k = m THEN at ELSE h.evicted[k]]]

\* Host.destroy(self), called at loop time at: self.__instances__.pop(self.mac).
destroy(h, self, at) ==
    LET m == h.objs[self].mac
    IN  IF m \notin DOMAIN h.instances THEN [h EXCEPT !.raised = "KeyError"]
        ELSE [h EXCEPT
                !.instances = [k \in DOMAIN h.instances \ {m} |-> h.instances[k]],
                !.evicted = [k \in DOMAIN h.evicted \cup {m} |->
                                IF k = m THEN at ELSE h.evicted[k]]]

\* Host.dwell at loop time t.
dwell(o, t) == t - o.last_refresh

\* Host.uptime at loop time t.
uptime(o, t) == t - o.loop_up

\* Mutant: the flag is read and left as it is.
updated_peek(o) == [value |-> o.updated, obj |-> o]

\* Host.updated: the flag as it was, and the object with the flag cleared.
updated(o) == [value |-> o.updated, obj |-> [o EXCEPT !.updated = FALSE]]

\* ------------------------------------------- the Host class on its own
\* The calls a user of the class makes (as its test does, with no loop
\* running): tasks are created and never stepped.
RawMacs == { <<"a", ":", "b">>, <<"b", ":", "c">>, <<"B", ":", "c">>,
             <<"g", ":", "1">> }
\* The (ip, name, type) arguments of a construction, and the values assigned
\* through the setters.
HostArgs == { <<None, None, None>>, <<"10.0.0.1", "n1", "t1">>,
              <<"10.0.0.2", None, None>> }
SetValues == [ip |-> {"10.0.0.2", None}, name |-> {"n2", None},
              type |-> {"t1", None}]

NoReport == [departed |-> {}, arrived |-> {}, updated |-> {}]
NoProbe  == [ip |-> None, timeout |-> FALSE, returncode |-> 0,
             nomatch |-> FALSE, stdout |-> <<>>, parsed |-> <<>>]
NoRouter == [raises |-> FALSE, none |-> FALSE, devices |-> <<>>,
             done_at |-> NoTime]

NoCall == [op |-> "none", mac |-> NoMac, self |-> 0, field |-> None,
           value |-> None, ret |-> 0, flag |-> FALSE, raised |-> None,
           before |-> <<>>]

\* The call made before this one: what it was, on which Host, and the flag it
\* returned.
Before == <<last_call.op, last_call.self, last_call.flag>>

InitHost ==
    /\ now = 0
    /\ instances = <<>> /\ objs = <<>> /\ evicted = <<>>
    /\ tasks = <<>> /\ ready = <<>> /\ sched = <<>>
    /\ stopping = FALSE /\ outer = "none" /\ mainState = "none" /\ signals = 0
    /\ sweeps = 0 /\ ip_queue = <<>> /\ mac_queue = <<>>
    /\ nmap = NoProbe /\ lines = <<>> /\ arp = NoProbe /\ router = NoRouter
    /\ results = <<>> /\ previous_macs = {} /\ reported = NoReport
    /\ calls = 0 /\ last_call = NoCall /\ refs = <<>>

Commit(h) ==
    /\ instances' = h.instances
    /\ objs' = h.objs
    /\ evicted' = h.evicted
    /\ tasks' = h.tasks
    /\ sched' = h.sched

ApiFrame == UNCHANGED <<now, ready, stopping, outer, mainState, signals, pipeVars>>

\* Host(mac, ip, name, type)
ApiConstruct ==
    \E mac \in RawMacs, args \in HostArgs :
        LET ip   == args[1]
            name == args[2]
            type == args[3]
            h    == Host(Heap, now, mac, ip, name, type)
        IN  /\ calls < MaxCalls
            /\ Len(objs) < MaxHosts \/ format_mac(mac) \in DOMAIN instances
                 \/ format_mac(mac) = NoMac
            /\ IF h.raised = None THEN Commit(h)
               ELSE UNCHANGED <<hostVars, tasks, sched>>
            /\ last_call' = [NoCall EXCEPT !.op = "Host", !.mac = mac,
                                           !.value = <<ip, name, type>>,
                                           !.ret = h.ret, !.raised = h.raised,
                                           !.before = Before]
            /\ refs' = IF h.raised # None THEN refs
                       ELSE [r \in DOMAIN refs \cup {mac} |->
                                IF r = mac THEN h.ret ELSE refs[r]]
            /\ calls' = calls + 1
            /\ ApiFrame

\* host.ip = value, host.name = value, host.type = value
ApiSet ==
    \E self \in 1..Len(objs), field \in {"ip", "name", "type"} :
      \E value \in SetValues[field] :
        /\ calls < MaxCalls
        /\ objs' = [objs EXCEPT ![self] = set_and_flag(objs[self], field, value)]
        /\ last_call' = [NoCall EXCEPT !.op = "set", !.self = self,
                                       !.field = field, !.value = value,
                                       !.before = Before]
        /\ calls' = calls + 1
        /\ UNCHANGED <<instances, evicted, tasks, sched, refs>>
        /\ ApiFrame

\* host.updated
ApiUpdated ==
    \E self \in 1..Len(objs) :
        /\ calls < MaxCalls
        /\ objs' = [objs EXCEPT ![self] = updated(objs[self]).obj]
        /\ last_call' = [NoCall EXCEPT !.op = "updated", !.self = self,
                                       !.flag = updated(objs[self]).value,
                                       !.before = Before]
        /\ calls' = calls + 1
        /\ UNCHANGED <<instances, evicted, tasks, sched, refs>>
        /\ ApiFrame

\* host.destroy()
ApiDestroy ==
    \E self \in 1..Len(objs) :
        LET h == destroy(Heap, self, now)
        IN  /\ calls < MaxCalls
            /\ IF h.raised = None THEN Commit(h)
               ELSE UNCHANGED <<hostVars, tasks, sched>>
            /\ last_call' = [NoCall EXCEPT !.op = "destroy", !.self = self,
                                           !.raised = h.raised,
                                           !.before = Before]
            /\ calls' = calls + 1
            /\ UNCHANGED refs
            /\ ApiFrame

NextHost == ApiConstruct \/ ApiSet \/ ApiUpdated \/ ApiDestroy

SpecHost == InitHost /\ [][NextHost]_vars

\* --------------------------------------------- Host.format_mac on its own
\* The characters the addresses are made of: digits, letters of both cases, a
\* letter that is no base-16 digit, the separator and a sign.
MacChars == {"0", "1", "a", "B", "g", ":", "-"}
MacInputs == UNION { [1..n -> MacChars] : n \in 0..MaxLen }

\* str.swapcase() of one character.
swapcase(c) ==
    CASE c = "a" -> "A" [] c = "A" -> "a" [] c = "b" -> "B" [] c = "B" -> "b"
      [] c = "g" -> "G" [] c = "G" -> "g" [] OTHER -> c

\* The addresses that differ from mac in the case of one letter, or in one
\* more zero in front of the digits of one token.
Variants(mac) ==
    { [mac EXCEPT ![i] = swapcase(mac[i])] : i \in 1..Len(mac) }
    \cup { SubSeq(mac, 1, i - 1) \o <<"0">> \o SubSeq(mac, i, Len(mac)) :
             i \in { j \in 1..Len(mac) :
                       /\ HexVal(mac[j]) >= 0
                       /\ j = 1 \/ mac[j - 1] \in {":", "-"} } }

InitMac ==
    /\ now = 0
    /\ instances = <<>> /\ objs = <<>> /\ evicted = <<>>
    /\ tasks = <<>> /\ ready = <<>> /\ sched = <<>>
    /\ stopping = FALSE /\ outer = "none" /\ mainState = "none" /\ signals = 0
    /\ sweeps = 0 /\ ip_queue = <<>> /\ mac_queue = <<>>
    /\ nmap = NoProbe /\ lines = <<>> /\ arp = NoProbe /\ router = NoRouter
    /\ results = <<>> /\ previous_macs = {} /\ reported = NoReport
    /\ calls = 0 /\ refs = <<>>
    /\ \E mac \in MacInputs : last_call = [NoCall EXCEPT !.mac = mac]

MacFrame == UNCHANGED <<now, hostVars, loopVars, pipeVars, refs>>

\* Host.format_mac(mac)
MacFormat ==
    /\ last_call.op = "none"
    /\ last_call' = [last_call EXCEPT !.op = "format_mac",
                                      !.ret = format_mac(last_call.mac)]
    /\ calls' = calls + 1
    /\ MacFrame

\* Host.format_mac(Host.format_mac(mac)), as assemble_hosts and Host.__new__
\* apply it one after the other
MacFormatAgain ==
    /\ last_call.op = "format_mac" /\ last_call.ret # NoMac
    /\ last_call' = [last_call EXCEPT !.op = "again",
                                      !.value = format_mac(last_call.ret)]
    /\ calls' = calls + 1
    /\ MacFrame

\* Host.format_mac of the same address written another way
MacFormatVariant ==
    /\ last_call.op = "format_mac"
    /\ \E v \in Variants(last_call.mac) :
          last_call' = [last_call EXCEPT !.op = "variant", !.field = v,
                                          !.value = format_mac(v)]
    /\ calls' = calls + 1
    /\ MacFrame

NextMac == MacFormat \/ MacFormatAgain \/ MacFormatVariant

SpecMac == InitMac /\ [][NextMac]_vars

\* ------------------------------------------------------ the event loop
\* What the collaborators may answer.
ScanAddresses == <<"192.168.1.5", "192.168.1.6", "192.168.1.7">>

\* nmap: the addresses of its "Nmap scan report for" lines, or no answer
\* within the timeout.
NmapOutputs ==
    { [NoProbe EXCEPT !.stdout = <<>>],
      [NoProbe EXCEPT !.stdout = <<ScanAddresses[1]>>],
      [NoProbe EXCEPT !.stdout = ScanAddresses],
      [NoProbe EXCEPT !.timeout = TRUE] }

\* arp for one address: an entry (parsed: the address and the hardware
\* address as printed), a non-zero exit, "entries no match found", an output
\* of another shape, or no answer within the timeout. The last address is one
\* that has no entry or one whose hardware address is not hexadecimal.
ArpMacs(ip) ==
    IF ip = ScanAddresses[1] THEN { <<"b", ":", "c">> }
    ELSE IF ip = ScanAddresses[2]
    THEN { <<"B", ":", "c">>, <<"a", ":", "b">>, <<"g", ":", "1">> }
    ELSE { <<"g", ":", "1">> }

ArpOutcomes(ip) ==
    LET none == [NoProbe EXCEPT !.ip = ip]
    IN  { [none EXCEPT !.parsed = <<[ip |-> ip, mac |-> m]>>] : m \in ArpMacs(ip) }
        \cup IF ip = ScanAddresses[3] THEN { [none EXCEPT !.nomatch = TRUE] } ELSE
              { [none EXCEPT !.returncode = 1],
                [none EXCEPT !.nomatch = TRUE],
                none,
                [none EXCEPT !.timeout = TRUE] }

\* get_router_data: it raises, it returns None, or it returns device records.
RouterReplies ==
    { [NoRouter EXCEPT !.raises = TRUE],
      [NoRouter EXCEPT !.none = TRUE],
      [NoRouter EXCEPT !.devices =
          << [mac |-> <<"z", "z">>, name |-> "n9", type |-> "t9"],
             [mac |-> <<"B", ":", "C">>, name |-> "n1", type |-> "t1"] >>],
      [NoRouter EXCEPT !.devices =
          << [mac |-> <<"b", ":", "c">>, name |-> None, type |-> "t2"] >>] }

\* main(), up to loop.run_until_complete(tasks): gather has wrapped the five
\* coroutines in tasks, whose first steps call_soon has queued.
Init ==
    /\ now = 0
    /\ instances = <<>> /\ objs = <<>> /\ evicted = <<>>
    /\ tasks = << NewTask("ip_monitor", 0), NewTask("mac_resolver", 0),
                  NewTask("assemble_hosts", 0), NewTask("name_resolver", 0),
                  NewTask("task_monitor", 0) >>
    /\ ready = <<>>
    /\ sched = << StepOf(IpMonitor), StepOf(MacResolver), StepOf(Assembler),
                  StepOf(NameResolver), StepOf(TaskMonitor) >>
    /\ stopping = FALSE /\ outer = "pending" /\ mainState = "running"
    /\ signals = 0
    /\ sweeps = 0 /\ ip_queue = <<>> /\ mac_queue = <<>>
    /\ nmap = NoProbe /\ lines = <<>> /\ arp = NoProbe /\ router = NoRouter
    /\ results = <<>> /\ previous_macs = {} /\ reported = NoReport
    /\ calls = 0 /\ last_call = NoCall /\ refs = <<>>

Running(t) == tasks[t].status = "pending"

\* The tasks whose subprocess or executor call has answered by time t, and
\* those whose sleep or timeout timer is due by then.
IoDue(t)    == { k \in 1..Len(tasks) :
                   Running(k) /\ tasks[k].io # NoTime /\ tasks[k].io <= t }
TimersDue(t) == { k \in 1..Len(tasks) :
                   Running(k) /\ tasks[k].wake # NoTime /\ tasks[k].wake <= t }
EventTimes  == { tasks[k].io : k \in { j \in 1..Len(tasks) :
                                        Running(j) /\ tasks[j].io # NoTime } }
               \cup
               { tasks[k].wake : k \in { j \in 1..Len(tasks) :
                                        Running(j) /\ tasks[j].wake # NoTime } }
NextEvent   == CHOOSE t \in EventTimes : \A u \in EventTimes : t <= u

\* The tasks of S as handles, ordered by key (a deadline), then by creation.
RECURSIVE InOrder(_, _, _)
InOrder(S, key, handle) ==
    IF S = {} THEN <<>>
    ELSE LET k == CHOOSE a \in S : \A b \in S :
                      key[a] < key[b] \/ (key[a] = key[b] /\ a <= b)
         IN  <<handle[k]>> \o InOrder(S \ {k}, key, handle)

\* One pass of the loop's _run_once, up to the point where it starts calling
\* back: with nothing to call it sleeps until the next timer or answer; then
\* what call_soon queued comes first, a signal and the answers that arrived
\* next, the due timers last.
RunOnce ==
    /\ mainState = "running" /\ ready = <<>> /\ ~stopping
    /\ \E sig \in IF signals < MaxSignals THEN BOOLEAN ELSE {FALSE} :
        LET idle == sched = <<>> /\ ~sig /\ IoDue(now) = {} /\ TimersDue(now) = {}
            t1   == IF idle THEN NextEvent ELSE now
            io   == IoDue(t1)
            tm   == TimersDue(t1)
        IN  /\ idle => EventTimes # {} /\ NextEvent <= MaxTime
            /\ now' = t1
            /\ ready' = sched
                        \o (IF sig THEN <<SignalHandle>> ELSE <<>>)
                        \o InOrder(io, [k \in io |-> tasks[k].io],
                                   [k \in io |-> IoOf(k)])
                        \o InOrder(tm, [k \in tm |-> tasks[k].wake],
                                   [k \in tm |-> TimerOf(k)])
            /\ sched' = <<>>
            /\ tasks' = [k \in 1..Len(tasks) |->
                           IF k \in io THEN [tasks[k] EXCEPT !.io = NoTime]
                           ELSE IF k \in tm THEN [tasks[k] EXCEPT !.wake = NoTime]
                           ELSE tasks[k]]
            /\ signals' = IF sig THEN signals + 1 ELSE signals
    /\ UNCHANGED <<hostVars, stopping, outer, mainState, pipeVars, apiVars>>

Calling(handle) ==
    mainState = "running" /\ ready # <<>> /\ Head(ready) = handle

\* A sleep's or a timeout's timer handle: it completes the future the task
\* awaits, unless that future was cancelled, and the task's wakeup is queued.
TimerFire ==
    \E t \in 1..Len(tasks) :
        /\ Calling(TimerOf(t))
        /\ ready' = Tail(ready)
        /\ IF Running(t) /\ tasks[t].waiting
           THEN /\ tasks' = [tasks EXCEPT ![t].waiting = FALSE]
                /\ sched' = Append(sched, StepOf(t))
           ELSE UNCHANGED <<tasks, sched>>
        /\ UNCHANGED <<now, hostVars, stopping, outer, mainState, signals,
                       pipeVars, apiVars>>

\* The answer of a subprocess or of the executor: the same for the future
\* that stands for it.
IoEvent ==
    \E t \in 1..Len(tasks) :
        /\ Calling(IoOf(t))
        /\ ready' = Tail(ready)
        /\ IF Running(t) /\ tasks[t].waiting
           THEN /\ tasks' = [tasks EXCEPT ![t].waiting = FALSE]
                /\ sched' = Append(sched, StepOf(t))
           ELSE UNCHANGED <<tasks, sched>>
        /\ UNCHANGED <<now, hostVars, stopping, outer, mainState, signals,
                       pipeVars, apiVars>>

\* Task.cancel() on task t of the heap h: a task suspended on a pending
\* future has that future cancelled, which queues its wakeup; any other task
\* that is not done has _must_cancel set. Either way its next step throws
\* CancelledError into the coroutine.
cancel(h, t) ==
    IF h.tasks[t].status # "pending" THEN h
    ELSE IF h.tasks[t].waiting
    THEN [h EXCEPT !.tasks[t].waiting = FALSE, !.tasks[t].must_cancel = TRUE,
                   !.tasks[t].wake = NoTime, !.tasks[t].io = NoTime,
                   !.sched = Append(h.sched, StepOf(t))]
    ELSE [h EXCEPT !.tasks[t].must_cancel = TRUE]

RECURSIVE cancel_each(_, _)
cancel_each(h, ts) ==
    IF ts = <<>> THEN h ELSE cancel_each(cancel(h, Head(ts)), Tail(ts))

\* Mutant: only the gathered tasks are cancelled.
cancel_tasks_gathered_only(h) ==
    IF outer = "pending"
    THEN cancel_each(h, <<IpMonitor, MacResolver, Assembler, NameResolver,
                          TaskMonitor>>)
    ELSE h

\* cancel_tasks(signame, gathered_tasks): the gather future's cancel() cancels
\* its children unless it is done; then every task of all_tasks() that is not
\* done is cancelled, unless all of them are cancelled already.
cancel_tasks(h) ==
    LET h1 == IF outer = "pending"
              THEN cancel_each(h, <<IpMonitor, MacResolver, Assembler,
                                    NameResolver, TaskMonitor>>)
              ELSE h
    IN  IF \A t \in 1..Len(h1.tasks) : h1.tasks[t].status = "cancelled" THEN h1
        ELSE cancel_each(h1, [t \in 1..Len(h1.tasks) |-> t])

\* The loop calls the signal handler main() registered.
SignalHandler ==
    /\ Calling(SignalHandle)
    /\ ready' = Tail(ready)
    /\ LET h == cancel_tasks(Heap)
       IN  tasks' = h.tasks /\ sched' = h.sched
    /\ UNCHANGED <<now, hostVars, stopping, outer, mainState, signals,
                   pipeVars, apiVars>>

\* A task's coroutine ended: how (cancelled, raised, done), and gather's
\* done-callback is queued when it is one of the gathered five.
finish(h, t, status, exc) ==
    [h EXCEPT !.tasks[t].status = status, !.tasks[t].exc = exc,
              !.tasks[t].pc = "end", !.tasks[t].waiting = FALSE,
              !.tasks[t].must_cancel = FALSE,
              !.tasks[t].wake = NoTime, !.tasks[t].io = NoTime,
              !.sched = IF t \in Gathered THEN Append(h.sched, GatherCbOf(t))
                        ELSE h.sched]

\* The coroutine of task t suspends at pc until time wake or until the
\* answer due at io.
suspend(h, t, pc, wake, io) ==
    [h EXCEPT !.tasks[t].pc = pc, !.tasks[t].waiting = TRUE,
              !.tasks[t].wake = wake, !.tasks[t].io = io]

\* gather's _done_callback for child t: the first child that ends cancelled or
\* with an exception completes the outer future with that exception, which
\* queues run_until_complete's callback.
GatherDone ==
    \E t \in Gathered :
        /\ Calling(GatherCbOf(t))
        /\ ready' = Tail(ready)
        /\ IF outer # "pending" THEN UNCHANGED <<outer, sched>>
           ELSE /\ outer' = IF tasks[t].status = "cancelled"
                            THEN "CancelledError" ELSE tasks[t].exc
                /\ sched' = Append(sched, RunCbHandle)
        /\ UNCHANGED <<now, hostVars, tasks, stopping, mainState, signals,
                       pipeVars, apiVars>>

\* run_until_complete's callback on the outer future: loop.stop().
RunUntilCompleteCb ==
    /\ Calling(RunCbHandle)
    /\ ready' = Tail(ready)
    /\ stopping' = TRUE
    /\ UNCHANGED <<now, hostVars, tasks, sched, outer, mainState, signals,
                   pipeVars, apiVars>>

\* main(): the loop stops at the end of the pass in which stop() was called;
\* run_until_complete raises the outer future's exception; CancelledError is
\* caught, anything else leaves main after loop.close().
MainExit ==
    /\ mainState = "running" /\ ready = <<>> /\ stopping
    /\ mainState' = IF outer = "CancelledError" THEN "closed" ELSE "crashed"
    /\ UNCHANGED <<now, hostVars, tasks, ready, sched, stopping, outer, signals,
                   pipeVars, apiVars>>

\* ------------------------------------------------------- the coroutines
\* A task's step: the loop calls its wakeup, and its coroutine runs from the
\* await it was suspended at to the next await that suspends, or to its end.
Stepping(t) == Calling(StepOf(t)) /\ Running(t)

StepFrame == UNCHANGED <<stopping, outer, mainState, signals, apiVars>>

\* Queue.put_nowait's _wakeup_next: the consumer suspended in get() has its
\* getter future completed and its wakeup queued.
wakeup_next(h, consumer) ==
    IF /\ h.tasks[consumer].status = "pending"
       /\ h.tasks[consumer].pc = "get"
       /\ h.tasks[consumer].waiting
    THEN [h EXCEPT !.tasks[consumer].waiting = FALSE,
                   !.sched = Append(h.sched, StepOf(consumer))]
    ELSE h

\* run_subprocess(cmd) in task t at time at: the task is suspended until the
\* subprocess answers, or until wait_for's timeout when it does not.
run_subprocess(h, t, pc, answer, at, takes) ==
    IF answer.timeout
    THEN suspend(h, t, pc, at + SubprocessTimeout, NoTime)
    ELSE suspend(h, t, pc, NoTime, at + takes)

\* What run_subprocess returns to its caller: stdout and the return code of
\* the subprocess, or "", "", 1 when wait_for timed out.
run_subprocess_result(answer) ==
    IF answer.timeout
    THEN [answer EXCEPT !.stdout = <<>>, !.parsed = <<>>, !.nomatch = FALSE,
                        !.returncode = 1]
    ELSE answer

\* ip_monitor(ip_queue)
IpMonitorStep ==
    LET t == IpMonitor
        \* the for loop over the lines of stdout: the next address is put and
        \* the task sleeps a second; after the last one it sleeps until the
        \* next sweep
        put_next(rest) ==
            IF rest = <<>>
            THEN /\ Commit(suspend(Heap, t, "sleep30", now + SweepSleep, NoTime))
                 /\ lines' = <<>>
                 /\ UNCHANGED ip_queue
            ELSE /\ Commit(suspend(wakeup_next(Heap, MacResolver), t, "sleep1",
                                   now + LineSleep, NoTime))
                 /\ ip_queue' = Append(ip_queue, Head(rest))
                 /\ lines' = Tail(rest)
    IN  /\ Stepping(t)
        /\ ready' = Tail(ready)
        /\ IF tasks[t].must_cancel
           THEN /\ Commit(finish(Heap, t, "cancelled", None))
                /\ UNCHANGED <<sweeps, nmap, lines, ip_queue>>
           ELSE IF tasks[t].pc \in {"start", "sleep30"}
           THEN \E answer \in IF sweeps < MaxSweeps \/ DOMAIN evicted # {}
                              THEN NmapOutputs
                              ELSE {[NoProbe EXCEPT !.stdout = <<>>]} :
                    /\ Commit(run_subprocess(Heap, t, "nmap", answer, now, NmapTime))
                    /\ nmap' = answer
                    /\ sweeps' = sweeps + 1
                    /\ UNCHANGED <<lines, ip_queue>>
           ELSE IF tasks[t].pc = "nmap"
           THEN /\ put_next(run_subprocess_result(nmap).stdout)
                /\ UNCHANGED <<sweeps, nmap>>
           ELSE /\ put_next(lines)
                /\ UNCHANGED <<sweeps, nmap>>
        /\ UNCHANGED <<now, mac_queue, arp, router, results, previous_macs,
                       reported>>
        /\ StepFrame

\* Mutant: the shape of the answer is looked at before "no match found".
arp_verdict_shape_first(answer) ==
    IF answer.returncode # 0 THEN "skip"
    ELSE IF answer.parsed = <<>> THEN "raise"
    ELSE IF answer.nomatch THEN "skip"
    ELSE IF format_mac(answer.parsed[1].mac) # NoMac THEN "put"
    ELSE "drop"

\* Mutant: the pair is put whatever format_mac makes of the hardware address.
arp_verdict_puts_malformed(answer) ==
    IF answer.returncode # 0 THEN "skip"
    ELSE IF answer.nomatch THEN "skip"
    ELSE IF answer.parsed = <<>> THEN "raise"
    ELSE "put"

\* What mac_resolver does with what run_subprocess returned: skip the
\* address, raise TypeError, put the parsed pair on mac_queue, or drop a
\* hardware address that is malformed.
arp_verdict(answer) ==
    IF answer.returncode # 0 THEN "skip"
    ELSE IF answer.nomatch THEN "skip"
    ELSE IF answer.parsed = <<>> THEN "raise"
    ELSE IF format_mac(answer.parsed[1].mac) # NoMac THEN "put"
    ELSE "drop"

\* mac_resolver(ip_queue, mac_queue)
MacResolverStep ==
    LET t == MacResolver
        verdict == IF tasks[t].pc = "arp"
                   THEN arp_verdict(run_subprocess_result(arp)) ELSE "none"
        h1 == IF verdict = "put" THEN wakeup_next(Heap, Assembler) ELSE Heap
    IN  /\ Stepping(t)
        /\ ready' = Tail(ready)
        /\ IF tasks[t].must_cancel
           THEN /\ Commit(finish(Heap, t, "cancelled", None))
                /\ UNCHANGED <<ip_queue, mac_queue, arp>>
           ELSE IF verdict = "raise"
           THEN /\ Commit(finish(Heap, t, "raised", "TypeError"))
                /\ UNCHANGED <<ip_queue, mac_queue, arp>>
           ELSE /\ mac_queue' = IF verdict = "put"
                                THEN Append(mac_queue, arp.parsed[1])
                                ELSE mac_queue
                \* back at ip_queue.get(): it suspends only on an empty queue
                /\ IF ip_queue = <<>>
                   THEN /\ Commit(suspend(h1, t, "get", NoTime, NoTime))
                        /\ UNCHANGED <<ip_queue, arp>>
                   ELSE \E answer \in ArpOutcomes(Head(ip_queue)) :
                        /\ Commit(run_subprocess(h1, t, "arp", answer, now, ArpTime))
                        /\ arp' = answer
                        /\ ip_queue' = Tail(ip_queue)
        /\ UNCHANGED <<now, sweeps, nmap, lines, router, results, previous_macs,
                       reported>>
        /\ StepFrame

\* The body of assemble_hosts' loop for the queued items, at loop time t: it
\* stops at the first item whose Host(...) raises.
RECURSIVE assemble(_, _, _)
assemble(h, t, items) ==
    IF items = <<>> \/ h.raised # None THEN [heap |-> h, rest |-> items]
    ELSE LET ip_mac_map == Head(items)
             mac == format_mac(ip_mac_map.mac)
             ip  == ip_mac_map.ip
         IN  assemble(Host(h, t, mac, ip, None, None), t, Tail(items))

\* assemble_hosts(mac_queue)
AssemblerStep ==
    LET t == Assembler
        a == assemble(Heap, now, mac_queue)
    IN  /\ Stepping(t)
        /\ ready' = Tail(ready)
        /\ IF tasks[t].must_cancel
           THEN /\ Commit(finish(Heap, t, "cancelled", None))
                /\ UNCHANGED mac_queue
           ELSE /\ Len(a.heap.objs) <= MaxHosts
                /\ mac_queue' = a.rest
                /\ IF a.heap.raised # None
                   THEN Commit(finish(a.heap, t, "raised", a.heap.raised))
                   ELSE Commit(suspend(a.heap, t, "get", NoTime, NoTime))
        /\ UNCHANGED <<now, sweeps, ip_queue, nmap, lines, arp, router, results,
                       previous_macs, reported>>
        /\ StepFrame

\* Mutant: a record of an identity that is not registered creates its Host.
RECURSIVE merge_results_creating(_, _)
merge_results_creating(h, rs) ==
    IF rs = <<>> THEN h
    ELSE LET result == Head(rs)
             mac == format_mac(result.mac)
         IN  IF mac = NoMac THEN merge_results_creating(h, Tail(rs))
             ELSE merge_results_creating(
                      Host(h, 0, mac, None, result.name, result.type), Tail(rs))

\* Mutant: a record that is merged refreshes the Host.
RECURSIVE merge_results_refreshing(_, _)
merge_results_refreshing(h, rs) ==
    IF rs = <<>> THEN h
    ELSE LET result == Head(rs)
             mac == format_mac(result.mac)
         IN  IF mac = NoMac \/ mac \notin DOMAIN h.instances
             THEN merge_results_refreshing(h, Tail(rs))
             ELSE LET host == h.instances[mac]
                      o1 == set_and_flag(h.objs[host], "name", result.name)
                      o2 == set_and_flag(o1, "type", result.type)
                      o3 == [o2 EXCEPT !.last_refresh = now]
                  IN  merge_results_refreshing([h EXCEPT !.objs[host] = o3],
                                               Tail(rs))

\* name_resolver's loop over the records get_router_data returned: the name
\* and the type of a record go to the Host registered under its identity.
RECURSIVE merge_results(_, _)
merge_results(h, rs) ==
    IF rs = <<>> THEN h
    ELSE LET result == Head(rs)
             mac == format_mac(result.mac)
         IN  IF mac = NoMac \/ mac \notin DOMAIN h.instances
             THEN merge_results(h, Tail(rs))
             ELSE LET host == h.instances[mac]
                      o1 == set_and_flag(h.objs[host], "name", result.name)
                      o2 == set_and_flag(o1, "type", result.type)
                  IN  merge_results([h EXCEPT !.objs[host] = o2], Tail(rs))

\* name_resolver()
NameResolverStep ==
    LET t == NameResolver
    IN  /\ Stepping(t)
        /\ ready' = Tail(ready)
        /\ IF tasks[t].must_cancel
           THEN \* leaving the with block joins the executor's thread: the
                \* loop's thread is held until a running call has returned
                /\ Commit(finish(Heap, t, "cancelled", None))
                /\ now' = IF tasks[t].pc = "router" /\ router.done_at > now
                          THEN router.done_at ELSE now
                /\ UNCHANGED <<router, results>>
           ELSE IF tasks[t].pc = "start"
           THEN /\ Commit(suspend(Heap, t, "sleep", now + ResolverSleep, NoTime))
                /\ UNCHANGED <<now, router, results>>
           ELSE IF tasks[t].pc = "sleep"
           THEN \E reply \in RouterReplies :
                    /\ Commit(suspend(Heap, t, "router", NoTime, now + RouterTime))
                    /\ router' = [reply EXCEPT !.done_at = now + RouterTime]
                    /\ UNCHANGED <<now, results>>
           ELSE IF router.raises
           THEN /\ Commit(finish(Heap, t, "raised", "RouterError"))
                /\ UNCHANGED <<now, router, results>>
           ELSE IF router.none
           THEN /\ Commit(finish(Heap, t, "raised", "TypeError"))
                /\ UNCHANGED <<now, router, results>>
           ELSE /\ Commit(suspend(merge_results(Heap, router.devices), t, "sleep",
                                  now + ResolverSleep, NoTime))
                /\ results' = router.devices
                /\ UNCHANGED <<now, router>>
        /\ UNCHANGED <<sweeps, ip_queue, mac_queue, nmap, lines, arp,
                       previous_macs, reported>>
        /\ StepFrame

\* task_monitor(ip_queue, mac_queue)
TaskMonitorStep ==
    LET t == TaskMonitor
        current_macs == DOMAIN get_instances
        lost_macs == previous_macs \ current_macs
        new_macs  == current_macs \ previous_macs
        hosts == { get_instances[m] : m \in current_macs }
    IN  /\ Stepping(t)
        /\ ready' = Tail(ready)
        /\ IF tasks[t].must_cancel
           THEN /\ Commit(finish(Heap, t, "cancelled", None))
                /\ UNCHANGED <<previous_macs, reported>>
           ELSE IF current_macs # {}
           THEN /\ Commit(suspend(
                     [Heap EXCEPT !.objs = [i \in 1..Len(objs) |->
                          IF i \in hosts THEN updated(objs[i]).obj ELSE objs[i]]],
                     t, "sleep", now + MonitorSleep, NoTime))
                /\ reported' = [departed |-> lost_macs, arrived |-> new_macs,
                                updated |-> { m \in current_macs :
                                    updated(objs[get_instances[m]]).value }]
                /\ previous_macs' = current_macs
           ELSE /\ Commit(suspend(Heap, t, "sleep", now + MonitorSleep, NoTime))
                /\ reported' = NoReport
                /\ UNCHANGED previous_macs
        /\ UNCHANGED <<now, sweeps, ip_queue, mac_queue, nmap, lines, arp, router,
                       results>>
        /\ StepFrame

\* Mutant: CancelledError is swallowed, and the code after the loop runs.
heart_beat_swallows_cancel(h, t, at) ==
    LET self == h.tasks[t].host
        h1   == destroy(h, self, at)
    IN  IF ~h.tasks[t].must_cancel /\ dwell(h.objs[self], at) < StaleAfter
        THEN suspend(h, t, "sleep", at + HeartBeatSleep, NoTime)
        ELSE IF h1.raised # None THEN finish(h1, t, "raised", h1.raised)
        ELSE finish(h1, t, "done", None)

\* Mutant: the staleness is looked at every second poll only.
heart_beat_slow(h, t, at) ==
    LET self == h.tasks[t].host
        h1   == destroy(h, self, at)
    IN  IF h.tasks[t].must_cancel THEN finish(h, t, "cancelled", None)
        ELSE IF dwell(h.objs[self], at) < StaleAfter
        THEN suspend(h, t, "sleep", at + 2 * HeartBeatSleep, NoTime)
        ELSE IF h1.raised # None THEN finish(h1, t, "raised", h1.raised)
        ELSE finish(h1, t, "done", None)

\* Mutant: the loop looks at the uptime, not at the dwell.
heart_beat_uptime(h, t, at) ==
    LET self == h.tasks[t].host
        h1   == destroy(h, self, at)
    IN  IF h.tasks[t].must_cancel THEN finish(h, t, "cancelled", None)
        ELSE IF uptime(h.objs[self], at) < StaleAfter
        THEN suspend(h, t, "sleep", at + HeartBeatSleep, NoTime)
        ELSE IF h1.raised # None THEN finish(h1, t, "raised", h1.raised)
        ELSE finish(h1, t, "done", None)

\* Host.heart_beat(self) in task t, stepped at loop time at: cancelled, it
\* re-raises; while the dwell is below the threshold it sleeps; past that it
\* destroys its Host and ends.
heart_beat(h, t, at) ==
    LET self == h.tasks[t].host
        h1   == destroy(h, self, at)
    IN  IF h.tasks[t].must_cancel THEN finish(h, t, "cancelled", None)
        ELSE IF dwell(h.objs[self], at) < StaleAfter
        THEN suspend(h, t, "sleep", at + HeartBeatSleep, NoTime)
        ELSE IF h1.raised # None THEN finish(h1, t, "raised", h1.raised)
        ELSE finish(h1, t, "done", None)

HeartBeatStep ==
    \E t \in 1..Len(tasks) :
        /\ tasks[t].kind = "heart_beat"
        /\ Stepping(t)
        /\ ready' = Tail(ready)
        /\ Commit([heart_beat(Heap, t, now) EXCEPT !.raised = None])
        /\ UNCHANGED <<now, pipeVars>>
        /\ StepFrame

Next ==
    \/ RunOnce
    \/ TimerFire
    \/ IoEvent
    \/ SignalHandler
    \/ GatherDone
    \/ RunUntilCompleteCb
    \/ MainExit
    \/ IpMonitorStep
    \/ MacResolverStep
    \/ AssemblerStep
    \/ NameResolverStep
    \/ TaskMonitorStep
    \/ HeartBeatStep

Spec == Init /\ [][Next]_vars

\* ---------------------------------------------------------------- properties
Registered(i) == \E k \in DOMAIN instances : instances[k] = i
Present(v)    == v \notin {None, Unset}
Fields        == {"ip", "name", "type"}
Supervisor(i) == tasks[objs[i].task]

\* C1 (SpecHost). Registry uniqueness: every key of the registry is a
\* normalized identity and names a Host of its own whose mac it is; the Host
\* returned for an address carries the normalized address as its identity;
\* two addresses whose Hosts are both registered were given the same Host
\* exactly when they normalize to the same identity.
C1_RegistryUniqueness ==
    /\ \A k \in DOMAIN instances :
          format_mac(k) = k /\ objs[instances[k]].mac = k
    /\ \A k1, k2 \in DOMAIN instances : instances[k1] = instances[k2] => k1 = k2
    /\ \A r \in DOMAIN refs : objs[refs[r]].mac = format_mac(r)
    /\ \A r1, r2 \in DOMAIN refs :
          Registered(refs[r1]) /\ Registered(refs[r2]) =>
              ((format_mac(r1) = format_mac(r2)) <=> (refs[r1] = refs[r2]))

\* The test's three constructions: "a:b", "b:c" and "B:c" have been given, the
\* last two the same Host, the first another one.
C1_Witness ==
    /\ {<<"a", ":", "b">>, <<"b", ":", "c">>, <<"B", ":", "c">>} \subseteq DOMAIN refs
    /\ refs[<<"b", ":", "c">>] = refs[<<"B", ":", "c">>]
    /\ refs[<<"a", ":", "b">>] # refs[<<"b", ":", "c">>]
    /\ Cardinality(DOMAIN instances) = 2

\* C2 (Spec). Enrichment never creates: no step of name_resolver changes the
\* key set of the registry, allocates a Host or starts a supervisor, whatever
\* records the router returned.
C2_EnrichmentNeverCreates ==
    [][Calling(StepOf(NameResolver)) =>
          /\ DOMAIN instances' = DOMAIN instances
          /\ instances' = instances
          /\ Len(objs') = Len(objs)
          /\ Len(tasks') = Len(tasks)]_vars

\* name_resolver has merged a cycle's records, one of them for an identity
\* that had been evicted before the router answered and is not registered.
C2_Witness ==
    /\ tasks[NameResolver].pc = "sleep"
    /\ results = router.devices
    /\ \E i \in 1..Len(results) :
          LET m == format_mac(results[i].mac)
          IN  /\ m \in DOMAIN evicted
              /\ evicted[m] < router.done_at
              /\ m \notin DOMAIN instances

\* C3 (Spec). Eviction: while the loop runs, a registered Host whose
\* supervisor has no cancellation requested never has a dwell of the threshold
\* plus one poll interval or more, and the supervisor of a Host that was
\* removed has ended.
C3_EvictionWithinOnePoll ==
    mainState = "running" =>
        \A i \in 1..Len(objs) :
            /\ (/\ Registered(i)
                /\ Supervisor(i).status = "pending"
                /\ ~Supervisor(i).must_cancel)
               => dwell(objs[i], now) < StaleAfter + HeartBeatSleep
            /\ ~Registered(i) => Supervisor(i).status = "done"

\* A Host was removed by its supervisor at a poll that came after the dwell
\* had crossed the threshold.
C3_Witness ==
    \E i \in 1..Len(objs) :
        /\ ~Registered(i)
        /\ Supervisor(i).status = "done"
        /\ objs[i].mac \in DOMAIN evicted
        /\ evicted[objs[i].mac] - objs[i].last_refresh > StaleAfter

\* C4 (Spec). Cancellation safety: the signal handler's step, and every step
\* taken once a cancellation has been requested of some task, leave the
\* registry as it is.
CancelRequested ==
    \E t \in 1..Len(tasks) : tasks[t].must_cancel \/ tasks[t].status = "cancelled"

C4_CancellationNeverEvicts ==
    [][(Calling(SignalHandle) \/ CancelRequested) => instances' = instances]_vars

\* Shutdown is over, and a Host whose dwell was past the threshold when its
\* sleeping supervisor was cancelled is still registered.
C4_Witness ==
    /\ mainState = "closed"
    /\ \E i \in 1..Len(objs) :
          /\ Registered(i)
          /\ Supervisor(i).status = "cancelled"
          /\ dwell(objs[i], now) > StaleAfter + RouterTime

\* C5 (Spec). Global shutdown: once the signal handler has run, every task
\* that has not ended has its cancellation requested; and when main has
\* caught CancelledError and closed the loop, no task is left pending.
HandlerRan ==
    signals > Cardinality({ i \in 1..Len(ready) : ready[i] = SignalHandle })

C5_GlobalShutdown ==
    /\ HandlerRan =>
          \A t \in 1..Len(tasks) :
              tasks[t].status = "pending" => tasks[t].must_cancel
    /\ mainState = "closed" =>
          \A t \in 1..Len(tasks) : tasks[t].status # "pending"

\* The loop is closed after a signal; the five gathered tasks and two
\* supervisors have all ended cancelled.
C5_Witness ==
    /\ mainState = "closed"
    /\ Len(tasks) = 7
    /\ \A t \in 1..Len(tasks) : tasks[t].status = "cancelled"

\* C6 (Spec). Dirty flag on upsert: a step that changes the address, the name
\* or the type of a Host that had one leaves its dirty flag true; and the
\* assembly stage's upsert of a known identity with another address
\* overwrites the address and leaves the flag true.
C6_DirtyOnUpsert ==
    [][/\ \A i \in 1..Len(objs) : \A f \in Fields :
             objs[i][f] # Unset /\ objs'[i][f] # objs[i][f] => objs'[i].updated
       /\ (/\ Calling(StepOf(Assembler))
           /\ ~tasks[Assembler].must_cancel
           /\ Len(mac_queue) = 1
           /\ format_mac(mac_queue[1].mac) \in DOMAIN instances
           /\ objs[instances[format_mac(mac_queue[1].mac)]].ip # mac_queue[1].ip)
          => LET i == instances[format_mac(mac_queue[1].mac)]
             IN  objs'[i].ip = mac_queue[1].ip /\ objs'[i].updated]_vars

\* C7 (SpecHost). Absent values never overwrite present ones: no call unsets
\* a field of a Host that holds a value, and a construction or an assignment
\* that gives None for a field leaves the field of an existing Host as it was.
C7_AbsentNeverOverwrites ==
    [][/\ \A i \in 1..Len(objs) : \A f \in Fields :
             Present(objs[i][f]) => Present(objs'[i][f])
       /\ (calls' = calls + 1 /\ last_call'.op = "Host"
             /\ last_call'.raised = None /\ last_call'.ret <= Len(objs))
          => \A n \in 1..3 :
                last_call'.value[n] = None =>
                    LET f == <<"ip", "name", "type">>[n]
                    IN  objs'[last_call'.ret][f] = objs[last_call'.ret][f]
       /\ (calls' = calls + 1 /\ last_call'.op = "set"
             /\ last_call'.value = None)
          => objs'[last_call'.self] = objs[last_call'.self]]_vars

\* A construction with no address, no name and no type has just returned a
\* Host whose three fields hold the values of an earlier construction.
C7_Witness ==
    /\ last_call.op = "Host"
    /\ last_call.value = <<None, None, None>>
    /\ last_call.raised = None
    /\ objs[last_call.ret].ip = "10.0.0.1"
    /\ objs[last_call.ret].name = "n1"
    /\ objs[last_call.ret].type = "t1"

\* C8 (Spec). Sole remover: a step that removes an identity from the registry,
\* or registers another Host under it, is the step of that Host's own
\* supervisor, taken with no cancellation requested and with a dwell at or
\* past the threshold, and it ends the supervisor.
C8_SoleRemover ==
    [][\A m \in DOMAIN instances :
          (m \notin DOMAIN instances' \/ instances'[m] # instances[m]) =>
              LET i == instances[m]
                  t == objs[i].task
              IN  /\ Calling(StepOf(t))
                  /\ tasks[t].kind = "heart_beat" /\ tasks[t].host = i
                  /\ ~tasks[t].must_cancel
                  /\ dwell(objs[i], now) >= StaleAfter
                  /\ tasks'[t].status = "done"]_vars

\* An identity has been removed while the loop runs and the other Host is
\* still registered.
C8_Witness ==
    /\ mainState = "running"
    /\ DOMAIN evicted # {}
    /\ DOMAIN instances # {}
    /\ DOMAIN evicted \cap DOMAIN instances = {}

\* C9 (Spec). Metadata failure is not fatal: name_resolver never ends with an
\* exception, and main is never left with an exception of the router call.
C9_MetadataFailureNotFatal ==
    /\ tasks[NameResolver].status # "raised"
    /\ mainState = "crashed" => outer # "RouterError"

\* C10 (Spec). Resolution failure policy: at the step of mac_resolver that
\* gets the answer of a probe, a timeout, a non-zero result or "no match
\* found" leaves mac_queue as it is and the stage running, started on the next
\* queued address if there is one; the stage ends with an exception exactly
\* when the probe succeeded with output of another shape; and once it has, no
\* address is taken from ip_queue and nothing more is put on mac_queue.
SoftFailure(answer) ==
    answer.timeout \/ answer.returncode # 0 \/ answer.nomatch

C10_ResolutionFailurePolicy ==
    [][/\ (Calling(StepOf(MacResolver)) /\ ~tasks[MacResolver].must_cancel
             /\ tasks[MacResolver].pc = "arp")
          => /\ SoftFailure(arp) =>
                  /\ mac_queue' = mac_queue
                  /\ tasks'[MacResolver].status = "pending"
                  /\ IF ip_queue = <<>>
                     THEN tasks'[MacResolver].pc = "get"
                     ELSE /\ tasks'[MacResolver].pc = "arp"
                          /\ arp'.ip = Head(ip_queue)
                          /\ ip_queue' = Tail(ip_queue)
             /\ tasks'[MacResolver].status = "raised"
                  <=> (~SoftFailure(arp) /\ arp.parsed = <<>>)
       /\ tasks[MacResolver].status = "raised"
          => /\ Len(ip_queue') >= Len(ip_queue)
             /\ SubSeq(ip_queue', 1, Len(ip_queue)) = ip_queue
             /\ mac_queue' = mac_queue
             /\ arp' = arp]_vars

\* The probe of the first address failed softly (nothing was put, no Host
\* exists, the stage runs) and the second address, queued meanwhile, is being
\* probed.
C10_Witness ==
    /\ tasks[MacResolver].status = "pending"
    /\ tasks[MacResolver].pc = "arp"
    /\ arp.ip = ScanAddresses[2]
    /\ mac_queue = <<>>
    /\ objs = <<>>
    /\ now >= SubprocessTimeout

\* C11 (Spec). End-to-end delivery: with no signal delivered, main() does not
\* leave the loop while mac_resolver is awaiting a probe that answers with a
\* well-formed hardware address, or while a resolved pair is on mac_queue:
\* every such address gets to its Host.
Resolving ==
    /\ tasks[MacResolver].status = "pending"
    /\ tasks[MacResolver].pc = "arp"
    /\ arp_verdict(run_subprocess_result(arp)) = "put"

C11_EndToEndDelivery ==
    (mainState # "running" /\ signals = 0) => (~Resolving /\ mac_queue = <<>>)

\* C12 (SpecHost). The dirty flag is read-and-clear: reading host.updated
\* returns the flag as it was and leaves it false, and a read that follows a
\* read of the same Host directly returns false.
C12_ReadAndClear ==
    [][(calls' = calls + 1 /\ last_call'.op = "updated")
          => LET self == last_call'.self
             IN  /\ last_call'.flag = objs[self].updated
                 /\ ~objs'[self].updated
                 /\ \A f \in Fields : objs'[self][f] = objs[self][f]
                 /\ (last_call.op = "updated" /\ last_call.self = self)
                       => ~last_call'.flag]_vars

\* An assignment changed a field of a Host; the read after it returned true,
\* and the read after that one, of the same Host, returned false.
C12_Witness ==
    /\ last_call.op = "updated" /\ ~last_call.flag
    /\ last_call.before = <<"updated", last_call.self, TRUE>>
    /\ ~objs[last_call.self].updated

\* C13 (SpecMac). format_mac is idempotent and case-insensitive: applied to
\* its own result it returns that result; an address that differs from
\* another in the case of a letter or in the zero-padding of a token gets the
\* same result; and an address with a character that is no base-16 digit,
\* separator or sign gets None.
C13_NormalizationIdempotent ==
    /\ last_call.op = "again" => last_call.value = last_call.ret
    /\ last_call.op = "variant" => last_call.value = last_call.ret
    /\ (/\ last_call.op \in {"format_mac", "again", "variant"}
        /\ \E i \in 1..Len(last_call.mac) :
              HexVal(last_call.mac[i]) < 0 /\ last_call.mac[i] \notin {":", "-"})
       => last_call.ret = NoMac

\* "a:B" and "A:B" were both normalized to "0a:0b".
C13_Witness ==
    /\ last_call.op = "variant"
    /\ last_call.mac = <<"a", ":", "B">>
    /\ last_call.field = <<"A", ":", "B">>
    /\ last_call.value = <<"0", "a", ":", "0", "b">>
    /\ last_call.ret = last_call.value

\* C14 (Spec), as claimed. Every merge into a registered Host sets its
\* last_refresh to the current time: the assembly stage's upsert, and the
\* enrichment stage's merge of a record whose identity is registered.
Assembling ==
    Calling(StepOf(Assembler)) /\ ~tasks[Assembler].must_cancel
Merging ==
    /\ Calling(StepOf(NameResolver)) /\ ~tasks[NameResolver].must_cancel
    /\ tasks[NameResolver].pc = "router"
    /\ ~router.raises /\ ~router.none
MergedHosts ==
    { instances[format_mac(router.devices[i].mac)] :
        i \in { j \in 1..Len(router.devices) :
                  format_mac(router.devices[j].mac) \in DOMAIN instances } }

C15_MembershipDiff ==
    [][(Calling(StepOf(TaskMonitor)) /\ ~tasks[TaskMonitor].must_cancel)
          => /\ reported'.departed = previous_macs \ DOMAIN instances
             /\ reported'.arrived = DOMAIN instances \ previous_macs
             /\ previous_macs' = DOMAIN instances]_vars

\* C16 (Spec). Exactly one supervisor per Host: every Host has a heart_beat
\* task of its own, started by its construction, and there are as many
\* heart_beat tasks as Hosts ever constructed; while no cancellation has been
\* requested, the heart_beat tasks that have not ended are those of the
\* registered Hosts, one each; and a Host constructed under the identity of
\* one that was removed is another object, with a later loop_up and its own
\* task, the task of the removed one having ended.
HeartBeats == { t \in 1..Len(tasks) : tasks[t].kind = "heart_beat" }

C17_BoundedQueues ==
    [][/\ ip_queue_maxsize > 0 /\ Len(ip_queue') <= ip_queue_maxsize
       /\ mac_queue_maxsize > 0 /\ Len(mac_queue') <= mac_queue_maxsize
       /\ Len(ip_queue') > Len(ip_queue) => Len(ip_queue) < ip_queue_maxsize
       /\ Len(mac_queue') > Len(mac_queue)
             => Len(mac_queue) < mac_queue_maxsize]_vars

\* C18 (SpecHost). Removal is idempotent: destroy() of a Host whose identity
\* is not registered raises nothing and leaves the registry as it is.
C18_RemovalIdempotent ==
    [][(calls' = calls + 1 /\ last_call'.op = "destroy"
          /\ objs[last_call'.self].mac \notin DOMAIN instances)
          => last_call'.raised = None /\ instances' = instances]_vars

\* C19 (Spec). Malformed identities are skipped: a probe whose hardware
\* address format_mac rejects puts nothing on mac_queue, changes no Host and
\* leaves mac_resolver running, at its next address if one is queued; a
\* router record whose identity format_mac rejects changes nothing, the
\* records after it are merged and name_resolver goes on to its next cycle;
\* and every key of the registry is a normalized identity.
Malformed(mac) == format_mac(mac) = NoMac

WellFormed(rs) ==
    LET Keep(r) == ~Malformed(r.mac) IN SelectSeq(rs, Keep)

C19_MalformedSkipped ==
    [][/\ (/\ Calling(StepOf(MacResolver)) /\ ~tasks[MacResolver].must_cancel
           /\ tasks[MacResolver].pc = "arp"
           /\ ~SoftFailure(arp) /\ arp.parsed # <<>>
           /\ Malformed(arp.parsed[1].mac))
          => /\ mac_queue' = mac_queue
             /\ hostVars' = hostVars
             /\ tasks'[MacResolver].status = "pending"
             /\ IF ip_queue = <<>>
                THEN tasks'[MacResolver].pc = "get"
                ELSE /\ tasks'[MacResolver].pc = "arp"
                     /\ arp'.ip = Head(ip_queue)
                     /\ ip_queue' = Tail(ip_queue)
       /\ Merging
          => /\ instances' = instances
             /\ objs' = merge_results(Heap, WellFormed(router.devices)).objs
             /\ tasks'[NameResolver].status = "pending"
             /\ tasks'[NameResolver].pc = "sleep"
       /\ \A k \in DOMAIN instances' : ~Malformed(k) /\ format_mac(k) = k]_vars

\* A probe answered with the hardware address "g:1": nothing was queued and
\* mac_resolver waits for its next address; and name_resolver has merged a
\* reply whose first record has the identity "zz", the name of the record
\* after it having reached its Host.
C19_Witness ==
    /\ tasks[MacResolver].status = "pending"
    /\ tasks[MacResolver].pc = "get"
    /\ arp.parsed # <<>> /\ Malformed(arp.parsed[1].mac)
    /\ mac_queue = <<>>
    /\ tasks[NameResolver].status = "pending"
    /\ results # <<>> /\ Malformed(results[1].mac)
    /\ \E i \in 1..Len(objs) : objs[i].name = "n1"

\* C20 (SpecHost). No lost change notification: the dirty flag of a Host,
\* once set, stays set until host.updated is read; no construction for the
\* same identity clears it.
C20_NoLostNotification ==
    [][\A i \in 1..Len(objs) :
          (objs[i].updated /\ ~objs'[i].updated)
              => (last_call'.op = "updated" /\ last_call'.self = i)]_vars

====
